---- MODULE Spec2Model ----
(***************************************************************************)
(* A model of live_memory_io.py: the LiveMemoryIO class (process handle,   *)
(* address table, runtime address, 4-byte float read/write), write_csv and *)
(* the three commands of main (read, write, set).                          *)
(*                                                                         *)
(* Python values are modelled as follows.                                  *)
(*   str          a sequence of one-character strings                      *)
(*   None / x     an optional value: << >> is None, << x >> is x           *)
(*   float        [kind, sign, man, exp]: (-1)^sign * man * 2^exp with man *)
(*                odd (or 0), or an infinity / NaN                         *)
(*   dict         a sequence of << key, value >> pairs in insertion order  *)
(* Target memory is an array of bytes; a float occupies 4 of them.         *)
(* Addresses stay below 2^31, where ctypes.c_void_p(address) is the         *)
(* address itself.                                                         *)
(***************************************************************************)
EXTENDS Integers, Sequences, FiniteSets, TLC

----------------------------------------------------------------------------
\* Program constants (live_memory_io.py:18-21, 71, 54).

PROCESS_ALL_ACCESS == 2035711
PROCESS_VM_READ == 16
PROCESS_VM_WRITE == 32
PROCESS_VM_OPERATION == 8
MODULE_BASE == 4194304
ADDRESS_OFFSET == -1
\* ctypes.c_float is an IEEE-754 binary32: 24 significant bits, bias 127.
FLOAT_SIG_BITS == 24
FLOAT_BIAS == 127
\* Bytes moved by one ReadProcessMemory / WriteProcessMemory call.
FLOAT_SIZE == 4

----------------------------------------------------------------------------
\* Optional values.

None == << >>
Some(x) == << x >>
IsNone(o) == o = << >>
Val(o) == o[1]

----------------------------------------------------------------------------
\* Strings.

UpperChars == << "A", "B", "C", "D", "E", "F", "G", "H", "I", "J", "K", "L", "M",
                 "N", "O", "P", "Q", "R", "S", "T", "U", "V", "W", "X", "Y", "Z" >>
LowerChars == << "a", "b", "c", "d", "e", "f", "g", "h", "i", "j", "k", "l", "m",
                 "n", "o", "p", "q", "r", "s", "t", "u", "v", "w", "x", "y", "z" >>
DigitChars == << "0", "1", "2", "3", "4", "5", "6", "7", "8", "9" >>

\* Position of c in the sequence cs, 0 when absent.
IndexOf(c, cs) ==
    IF \E i \in DOMAIN cs : cs[i] = c
    THEN CHOOSE i \in DOMAIN cs : cs[i] = c
    ELSE 0

LowerChar(c) == IF IndexOf(c, UpperChars) > 0 THEN LowerChars[IndexOf(c, UpperChars)] ELSE c
UpperChar(c) == IF IndexOf(c, LowerChars) > 0 THEN UpperChars[IndexOf(c, LowerChars)] ELSE c

\* str.lower()
Lower(s) == [i \in DOMAIN s |-> LowerChar(s[i])]

\* str.capitalize(): first character upper case, the rest lower case
Capitalize(s) == [i \in DOMAIN s |-> IF i = 1 THEN UpperChar(s[i]) ELSE LowerChar(s[i])]

\* str.startswith(prefix)
StartsWith(s, prefix) ==
    /\ Len(s) >= Len(prefix)
    /\ SubSeq(s, 1, Len(prefix)) = prefix

\* Value of one base-16 digit, -1 when c is no hexadecimal digit.
HexDigit(c) ==
    IF IndexOf(c, DigitChars) > 0 THEN IndexOf(c, DigitChars) - 1
    ELSE IF IndexOf(LowerChar(c), SubSeq(LowerChars, 1, 6)) > 0
         THEN 9 + IndexOf(LowerChar(c), SubSeq(LowerChars, 1, 6))
         ELSE -1

RECURSIVE HexDigits(_)
\* Value of a run of hexadecimal digits (most significant first).
HexDigits(s) ==
    IF s = << >> THEN 0
    ELSE 16 * HexDigits(SubSeq(s, 1, Len(s) - 1)) + HexDigit(s[Len(s)])

\* int(s, 16): an optional sign, an optional 0x / 0X prefix, one or more
\* hexadecimal digits.  [ok |-> FALSE] stands for ValueError.
IntBase16(s) ==
    LET neg    == s # << >> /\ s[1] = "-"
        body   == IF s # << >> /\ s[1] \in {"-", "+"} THEN Tail(s) ELSE s
        digits == IF StartsWith(Lower(body), << "0", "x" >>) THEN SubSeq(body, 3, Len(body)) ELSE body
    IN  IF digits # << >> /\ \A i \in DOMAIN digits : HexDigit(digits[i]) >= 0
        THEN [ok |-> TRUE, val |-> IF neg THEN 0 - HexDigits(digits) ELSE HexDigits(digits)]
        ELSE [ok |-> FALSE, val |-> 0]

RECURSIVE HexText(_)
\* The hexadecimal digits of n > 0, most significant first.
HexText(n) ==
    IF n = 0 THEN << >>
    ELSE Append(HexText(n \div 16),
                IF n % 16 < 10 THEN DigitChars[(n % 16) + 1] ELSE LowerChars[(n % 16) - 9])

\* hex(n) for n >= 0
Hex(n) == << "0", "x" >> \o (IF n = 0 THEN << "0" >> ELSE HexText(n))

----------------------------------------------------------------------------
\* Floats.

Num(sign, man, exp) == [kind |-> "num", sign |-> sign, man |-> man, exp |-> exp]
Inf(sign) == [kind |-> "inf", sign |-> sign, man |-> 0, exp |-> 0]
NaN == [kind |-> "nan", sign |-> 0, man |-> 0, exp |-> 0]

RECURSIVE Normalise(_, _, _)
\* (-1)^sign * man * 2^exp with the factors of two moved out of man.
Normalise(sign, man, exp) ==
    IF man = 0 THEN Num(sign, 0, 0)
    ELSE IF man % 2 = 0 THEN Normalise(sign, man \div 2, exp + 1)
    ELSE Num(sign, man, exp)

\* The float of an integer.
FloatOfInt(n) == IF n < 0 THEN Normalise(1, 0 - n, 0) ELSE Normalise(0, n, 0)

RECURSIVE BitLen(_)
\* Number of significant bits of n >= 0.
BitLen(n) == IF n = 0 THEN 0 ELSE 1 + BitLen(n \div 2)

RECURSIVE DecDigits(_)
\* Value of a run of decimal digits (most significant first).
DecDigits(s) ==
    IF s = << >> THEN 0
    ELSE 10 * DecDigits(SubSeq(s, 1, Len(s) - 1)) + (IndexOf(s[Len(s)], DigitChars) - 1)

\* float(x) for x a str of an optional sign and decimal digits (a whole
\* number), any other str over letters being rejected; for x = None; and for
\* x the int 0 (the default of row.get at line 291).
\* exc is "" on success, else the exception raised.
FloatOfStr(s) ==
    LET neg    == s # << >> /\ s[1] = "-"
        digits == IF s # << >> /\ s[1] \in {"-", "+"} THEN Tail(s) ELSE s
    IN  IF digits # << >> /\ \A i \in DOMAIN digits : IndexOf(digits[i], DigitChars) > 0
        THEN [exc |-> "", val |-> Normalise(IF neg THEN 1 ELSE 0, DecDigits(digits), 0)]
        ELSE [exc |-> "ValueError", val |-> NaN]

\* ctypes.c_float(value): the IEEE-754 binary32 nearest to value (ties to
\* even), as its 4 bytes in little-endian order.  Defined for zero and for
\* values whose binary32 is normal or overflows to an infinity.
CFloat(value) ==
    LET sign == value.sign
        len  == BitLen(value.man)
        top  == value.exp + len - 1
        drop == len - FLOAT_SIG_BITS
        q    == IF drop > 0 THEN value.man \div (2 ^ drop) ELSE value.man * (2 ^ (0 - drop))
        r    == IF drop > 0 THEN value.man % (2 ^ drop) ELSE 0
        half == IF drop > 0 THEN 2 ^ (drop - 1) ELSE 1
        up   == drop > 0 /\ (r > half \/ (r = half /\ q % 2 = 1))
        sig0 == IF up THEN q + 1 ELSE q
        over == sig0 = 2 ^ FLOAT_SIG_BITS
        sig  == IF over THEN 2 ^ (FLOAT_SIG_BITS - 1) ELSE sig0
        e    == (IF over THEN top + 1 ELSE top) + FLOAT_BIAS
        f    == sig - 2 ^ (FLOAT_SIG_BITS - 1)
    IN  CASE value.kind = "num" /\ value.man = 0 -> << 0, 0, 0, 128 * sign >>
          [] value.kind = "num" /\ value.man > 0 /\ e >= 255 -> << 0, 0, 128, 128 * sign + 127 >>
          [] value.kind = "num" /\ value.man > 0 /\ e >= 1 /\ e < 255 ->
                << f % 256, (f \div 256) % 256, 128 * (e % 2) + (f \div 65536), 128 * sign + (e \div 2) >>
          [] value.kind = "inf" -> << 0, 0, 128, 128 * sign + 127 >>

\* c_float.value: the float held in 4 little-endian bytes.
FloatValue(b) ==
    LET sign == b[4] \div 128
        e    == 2 * (b[4] % 128) + (b[3] \div 128)
        f    == 65536 * (b[3] % 128) + 256 * b[2] + b[1]
    IN  IF e = 255 THEN (IF f = 0 THEN Inf(sign) ELSE NaN)
        ELSE IF e = 0 THEN Normalise(sign, f, 1 - FLOAT_BIAS - (FLOAT_SIG_BITS - 1))
        ELSE Normalise(sign, 2 ^ (FLOAT_SIG_BITS - 1) + f, e - FLOAT_BIAS - (FLOAT_SIG_BITS - 1))

----------------------------------------------------------------------------
\* Inputs.  A str the program inspects is a sequence of characters; a str it
\* only passes along (a label, a type tag, a reference value, a file name)
\* is a TLA+ string.

\* Longest address table and longest input file, in rows.
MaxAddrRows == 2
MaxInputRows == 2

\* A csv.DictReader row: column name -> field.  A column missing from the
\* header is missing from the row's domain; a column the row is too short
\* for holds None (DictReader's restval).
Row(module, label, rva, type, original) ==
    [Module |-> module, Label |-> label, RVA |-> rva, Type |-> type, EXE_Value |-> original]

\* Rows of addresses.csv.
AddrRows ==
    { Row(Some(<< "C", "h", "a", "s", "s", "i", "s" >>), Some("spring"), Some(<< "0", "x", "1", "0" >>), Some("Sing"), Some("2.5")),
      Row(Some(<< "C", "H", "A", "S", "S", "I", "S" >>), Some("damper"), Some(<< "0", "x", "1", "2" >>), Some("Sing"), Some("")),
      Row(Some(<< "E", "n", "g", "i", "n", "e" >>), Some("torque"), Some(<< "0", "x", "1", "F" >>), Some("Doub"), Some("310")),
      \* not prefixed with 0x
      Row(Some(<< "E", "n", "g", "i", "n", "e" >>), Some("idle"), Some(<< "2", "0" >>), Some("Sing"), Some("1")),
      \* prefixed, not hexadecimal
      Row(Some(<< "W", "h", "e", "e", "l" >>), Some("camber"), Some(<< "0", "x", "Z", "Z" >>), Some("Sing"), Some("1")),
      \* no RVA column at all
      [Module |-> Some(<< "W", "h", "e", "e", "l" >>), Label |-> Some("toe")],
      \* header RVA,Label,Module,Type,EXE_Value and a row of two fields
      Row(None, Some("short"), Some(<< "0", "x", "2", "0" >>), None, None),
      \* header Module,Label,RVA,Type,EXE_Value and a row of two fields
      Row(Some(<< "E", "n", "g", "i", "n", "e" >>), Some("cut"), None, None, None) }

\* Rows of the write command's input file.
InputRows ==
    { [RVA |-> Some(<< "0", "x", "1", "0" >>), NewValue |-> Some(<< "1" >>)],
      [RVA |-> Some(<< "0", "x", "1", "2" >>), NewValue |-> Some(<< "1", "6", "7", "7", "7", "2", "1", "7" >>), CurrentValue |-> Some(<< "3" >>)],
      [RVA |-> Some(<< "0", "x", "1", "F" >>), CurrentValue |-> Some(<< "-", "6" >>)],
      [RVA |-> Some(<< "0", "x", "2", "0" >>)],
      [RVA |-> Some(<< "2", "0" >>), NewValue |-> Some(<< "1" >>)],
      [RVA |-> Some(<< "0", "x", "2", "0" >>), NewValue |-> Some(<< "a", "b", "c" >>)],
      [RVA |-> Some(<< "0", "x", "Z", "Z" >>), NewValue |-> Some(<< "1" >>)],
      [RVA |-> Some(<< "0", "x", "2", "0" >>), NewValue |-> None] }

RECURSIVE SeqsUpTo(_, _)
\* The sequences over S of length at most n.
SeqsUpTo(S, n) ==
    IF n = 0 THEN { << >> }
    ELSE LET shorter == SeqsUpTo(S, n - 1)
         IN  shorter \cup { Append(s, x) : s \in { t \in shorter : Len(t) = n - 1 }, x \in S }

\* addresses.csv: None when the file does not exist, else its rows.
AddrFiles == { None } \cup { Some(f) : f \in SeqsUpTo(AddrRows, MaxAddrRows) }

\* The address tables tried with the commands that never use the table.
FewAddrFiles ==
    { None, Some(<< >>) }
    \cup { Some(<< r >>) : r \in { x \in AddrRows : "RVA" \in DOMAIN x /\ x.RVA \in { None, Some(<< "0", "x", "1", "0" >>) } } }

InputFiles == { None } \cup { Some(f) : f \in SeqsUpTo(InputRows, MaxInputRows) }

\* sys.argv; the script's own name is argv[1] here (Python's sys.argv[0]).
ReadArgvs ==
    { << "live_memory_io.py", << "r", "e", "a", "d" >> >>,
      << "live_memory_io.py", << "R", "E", "A", "D" >>, << "c", "h", "a", "s", "s", "i", "s" >> >>,
      << "live_memory_io.py", << "r", "e", "a", "d" >>, << "E", "N", "G", "I", "N", "E" >>, << "o", "u", "t" >> >>,
      << "live_memory_io.py", << "r", "e", "a", "d" >>, << "a", "l", "l" >>, << "o", "u", "t" >> >>,
      << "live_memory_io.py", << "r", "e", "a", "d" >>, << "o", "u", "t" >> >> }
WriteArgvs ==
    { << "live_memory_io.py", << "w", "r", "i", "t", "e" >> >>,
      << "live_memory_io.py", << "w", "r", "i", "t", "e" >>, << "i", "n", ".", "c", "s", "v" >> >> }
SetArgvs ==
    { << "live_memory_io.py", << "s", "e", "t" >>, << "1", "0" >> >>,
      << "live_memory_io.py", << "s", "e", "t" >>, << "0", "x", "1", "2" >>, << "1", "6", "7", "7", "7", "2", "1", "7" >> >>,
      << "live_memory_io.py", << "s", "e", "t" >>, << "-", "3", "F", "F", "F", "F", "F" >>, << "1" >> >>,
      << "live_memory_io.py", << "s", "e", "t" >>, << "z", "z" >>, << "1" >> >>,
      << "live_memory_io.py", << "s", "e", "t" >>, << "1", "0" >>, << "a", "b", "c" >> >> }
OtherArgvs ==
    { << "live_memory_io.py" >>,
      << "live_memory_io.py", << "d", "u", "m", "p" >> >> }
Argvs == ReadArgvs \cup WriteArgvs \cup SetArgvs \cup OtherArgvs

\* What `winedbg --command "info proc"` lists: None when no line names
\* nr2003, else the first field of the first such line (the pid, in hex).
WinedbgOutputs == { None, Some(<< "0", "0", "0", "0", "0", "0", "2", "c" >>) }

\* The byte of target memory at address a before the tool touches it.
InitByte(a) == a % 256

----------------------------------------------------------------------------
\* State.

VARIABLES
    argv,           \* sys.argv
    winedbg,        \* what winedbg lists for nr2003
    addrFile,       \* addresses.csv
    inputFile,      \* the file the write command names
    mem,            \* target memory: the bytes written so far, address -> byte
    pc,             \* position in main
    exc,            \* the exception that ended the run ("" when none)
    handle,         \* io.handle: None or the open handle [pid, access]
    pid,            \* io.pid
    module_base,    \* io.module_base
    address_map,    \* io.address_map
    module_filter,  \* main's module_filter
    output_path,    \* main's output_path
    values,         \* the dict read_all_values builds
    idx,            \* position of the loop over address_map / the input rows
    count,          \* the write command's count
    report,         \* the count printed by "Wrote N values": None until printed
    dirs,           \* directories made by os.makedirs
    files,          \* files written: << directory, name >> -> rows
    calls,          \* the functions and methods entered so far, in order
    osLog           \* the kernel32 calls made so far, in order

inputs == << argv, winedbg, addrFile, inputFile >>
ioVars == << handle, pid, module_base, address_map >>
mainVars == << module_filter, output_path, values, idx, count, report >>
outVars == << dirs, files >>
vars == << inputs, mem, pc, exc, ioVars, mainVars, outVars, calls, osLog >>

----------------------------------------------------------------------------
\* The operating system.

\* Whether bit (a power of two) is set in the access mask.
HasRight(access, bit) == (access \div bit) % 2 = 1

RECURSIVE BitOr(_, _)
\* a | b
BitOr(a, b) ==
    IF a = 0 THEN b
    ELSE IF b = 0 THEN a
    ELSE 2 * BitOr(a \div 2, b \div 2) + (IF a % 2 = 1 \/ b % 2 = 1 THEN 1 ELSE 0)

\* ReadProcessMemory can succeed only on an open handle with PROCESS_VM_READ.
CanRead(h) == ~IsNone(h) /\ HasRight(Val(h).access, PROCESS_VM_READ)

\* WriteProcessMemory can succeed only on an open handle with
\* PROCESS_VM_WRITE and PROCESS_VM_OPERATION.
CanWrite(h) ==
    /\ ~IsNone(h)
    /\ HasRight(Val(h).access, PROCESS_VM_WRITE)
    /\ HasRight(Val(h).access, PROCESS_VM_OPERATION)

ByteAt(m, a) == IF a \in DOMAIN m THEN m[a] ELSE InitByte(a)

\* The FLOAT_SIZE bytes of memory m from address a on.
BytesAt(m, a) == [i \in 1..FLOAT_SIZE |-> ByteAt(m, a + i - 1)]

\* Memory m with the bytes b stored from address a on.
Store(m, a, b) ==
    [x \in DOMAIN m \cup { a + i - 1 : i \in DOMAIN b } |->
        IF x >= a /\ x < a + Len(b) THEN b[x - a + 1] ELSE m[x]]

\* One kernel32 call, as logged.  src is the table position of the row the
\* call was made for (0 when there is none); value is the float handed to
\* write_float, or the one read_float returned (None when the read failed).
OsCall(op, h, addr, ok, src, value) ==
    [op |-> op, handle |-> h, addr |-> addr, ok |-> ok, src |-> src, value |-> value]

----------------------------------------------------------------------------
\* LiveMemoryIO.

\* get_module_base: sets and returns io.module_base.
get_module_base == MODULE_BASE

\* io.module_base after get_runtime_address ran.
BaseAfter(mb) == IF IsNone(mb) \/ Val(mb) = 0 THEN Some(get_module_base) ELSE mb

\* get_runtime_address with the offset of -1 left out.
get_runtime_address_NoOffset(mb, rva) == Some(Val(BaseAfter(mb)) + rva)

\* get_runtime_address(rva), given io.module_base: an address or None.
get_runtime_address(mb, rva) ==
    IF Val(BaseAfter(mb)) # 0
    THEN Some(Val(BaseAfter(mb)) + rva + ADDRESS_OFFSET)
    ELSE None

\* Python's truth value of an optional int.
Truthy(o) == ~IsNone(o) /\ Val(o) # 0

\* The address c_void_p(address) holds: NULL for None.
VoidP(o) == IF IsNone(o) THEN 0 ELSE Val(o)

\* open_process asking for every right whatever write_access says.
OpenAccess_AlwaysAll(write_access) == PROCESS_ALL_ACCESS

\* open_process: the access mask asked for.
OpenAccess(write_access) ==
    IF write_access THEN PROCESS_ALL_ACCESS
    ELSE BitOr(PROCESS_VM_READ, PROCESS_VM_OPERATION)

\* read_float(address) with ReadProcessMemory's outcome ok: the float read,
\* or None.
read_float(m, address, ok) == IF ok THEN Some(FloatValue(BytesAt(m, address))) ELSE None

\* write_float storing one byte too far.
write_float_OffByOne(m, address, value, ok) ==
    IF ok THEN Store(m, address + 1, CFloat(value)) ELSE m

\* write_float(address, value) with WriteProcessMemory's outcome ok: the
\* target memory afterwards.
write_float(m, address, value, ok) == IF ok THEN Store(m, address, CFloat(value)) ELSE m

\* row.get(key, default)
Get(row, key, default) == IF key \in DOMAIN row THEN row[key] ELSE default

\* d[key] = value on a dict held as a sequence of << key, value >> pairs.
DictSet(d, key, value) ==
    IF \E i \in DOMAIN d : d[i][1] = key
    THEN [i \in DOMAIN d |-> IF d[i][1] = key THEN << key, value >> ELSE d[i]]
    ELSE Append(d, << key, value >>)

DictHas(d, key) == \E i \in DOMAIN d : d[i][1] = key
DictGet(d, key) == d[CHOOSE i \in DOMAIN d : d[i][1] = key][2]

\* One pass of the loop of load_addresses over a row, from address map m.
\* exc is the exception that leaves the loop ("" when none does).
LoadRow(m, row) ==
    LET rva_str == Get(row, "RVA", Some(<< >>))
        rva     == IntBase16(Val(rva_str))
        module  == Get(row, "Module", Some(<< "U", "n", "k", "n", "o", "w", "n" >>))
        label   == Get(row, "Label", Some("???"))
        info    == [rva |-> rva.val,
                    type |-> Get(row, "Type", Some("Sing")),
                    label |-> label,
                    module |-> module,
                    original |-> Get(row, "EXE_Value", Get(row, "Original", Some("")))]
    IN  IF IsNone(rva_str) THEN [map |-> m, exc |-> "AttributeError"]
        ELSE IF ~StartsWith(Val(rva_str), << "0", "x" >>) THEN [map |-> m, exc |-> ""]
        ELSE IF ~rva.ok THEN [map |-> m, exc |-> ""]
        ELSE [map |-> DictSet(m, << module, label, rva.val >>, info), exc |-> ""]

RECURSIVE LoadRows(_, _)
\* The loop of load_addresses over rows, from address map m.
LoadRows(m, rows) ==
    IF rows = << >> THEN [map |-> m, exc |-> ""]
    ELSE LET one == LoadRow(m, Head(rows))
         IN  IF one.exc # "" THEN one ELSE LoadRows(one.map, Tail(rows))

\* write_csv: the rows written for a module's snapshots.
CsvRows(vals) ==
    [i \in DOMAIN vals |->
        [RVA |-> Hex(vals[i].rva),
         Runtime |-> Hex(vals[i].runtime),
         Type |-> vals[i].type,
         Label |-> vals[i].label,
         Original |-> vals[i].original,
         EXE_Value |-> vals[i].original,
         CurrentValue |-> vals[i].value]]

\* write_csv: the file written for a module, in the directory output_path.
CsvPath(out, module) == << out, Lower(module) \o << ".", "c", "s", "v" >> >>

\* files with the rows stored under path.
PutFile(fs, path, rows) ==
    [p \in DOMAIN fs \cup { path } |-> IF p = path THEN rows ELSE fs[p]]

RECURSIVE WriteAll(_, _, _, _)
\* The loop of main over values.items() from position k on: write_csv for
\* each module, until one raises.  fs are the files, cs the calls so far.
WriteAll(out, vs, fs, cs) ==
    IF vs = << >> THEN [files |-> fs, calls |-> cs, exc |-> ""]
    ELSE LET module == Head(vs)[1]
             vals   == Head(vs)[2]
         IN  IF IsNone(module)
             THEN [files |-> fs, calls |-> Append(cs, "write_csv"), exc |-> "AttributeError"]
             ELSE WriteAll(out, Tail(vs),
                           PutFile(fs, CsvPath(out, Val(module)), CsvRows(vals)),
                           Append(cs, "write_csv"))

----------------------------------------------------------------------------
\* main, one run of the script.

\* sys.argv[1].lower(); the empty str when there is no argument
command == IF Len(argv) >= 2 THEN Lower(argv[2]) ELSE << >>

Init ==
    /\ argv \in Argvs
    /\ winedbg \in WinedbgOutputs
    /\ addrFile \in (IF argv \in ReadArgvs THEN AddrFiles ELSE FewAddrFiles)
    /\ inputFile \in (IF argv \in WriteArgvs /\ Len(argv) >= 3 THEN InputFiles ELSE { None })
    /\ mem = << >>
    /\ pc = "main"
    /\ exc = ""
    /\ handle = None
    /\ pid = None
    /\ module_base = None
    /\ address_map = << >>
    /\ module_filter = None
    /\ output_path = << "." >>
    /\ values = << >>
    /\ idx = 0
    /\ count = 0
    /\ report = None
    /\ dirs = { }
    /\ files = << >>
    /\ calls = << >>
    /\ osLog = << >>

\* An uncaught exception ends the run where it is raised.
Raise(e) == pc' = "crashed" /\ exc' = e

\* Lines 209-245: the usage text without a command, else the module filter
\* and the output path from the arguments.
ParseArgs ==
    /\ pc = "main"
    /\ IF Len(argv) < 2
       THEN /\ pc' = "done"
            /\ UNCHANGED << module_filter, output_path >>
       ELSE /\ pc' = "find"
            /\ IF Len(argv) >= 3
               THEN LET arg2 == Lower(argv[3])
                    IN  IF arg2 \in { << "c", "h", "a", "s", "s", "i", "s" >>, << "e", "n", "g", "i", "n", "e" >>, << "w", "h", "e", "e", "l" >> }
                        THEN /\ module_filter' = Some(Capitalize(arg2))
                             /\ output_path' = IF Len(argv) >= 4 THEN argv[4] ELSE output_path
                        ELSE IF arg2 = << "a", "l", "l" >>
                        THEN /\ module_filter' = None
                             /\ output_path' = IF Len(argv) >= 4 THEN argv[4] ELSE output_path
                        ELSE /\ module_filter' = None
                             /\ output_path' = argv[3]
               ELSE UNCHANGED << module_filter, output_path >>
    /\ UNCHANGED << inputs, mem, exc, ioVars, values, idx, count, report, outVars, calls, osLog >>

\* Lines 247-251 and find_process (56-68).
FindProcess ==
    /\ pc = "find"
    /\ calls' = Append(calls, "find_process")
    /\ IF IsNone(winedbg)
       THEN /\ pc' = "done"
            /\ UNCHANGED << pid, exc >>
       ELSE IF IntBase16(Val(winedbg)).ok
       THEN /\ pid' = Some(IntBase16(Val(winedbg)).val)
            /\ pc' = "load"
            /\ UNCHANGED exc
       ELSE /\ Raise("ValueError")
            /\ UNCHANGED pid
    /\ UNCHANGED << inputs, mem, handle, module_base, address_map, mainVars, outVars, osLog >>

\* Where main goes once the address table is loaded.
Dispatch ==
    CASE command = << "r", "e", "a", "d" >> -> "read"
      [] command = << "w", "r", "i", "t", "e" >> -> "write"
      [] command = << "s", "e", "t" >> -> "set"
      [] OTHER -> "close"

\* load_addresses without the test at line 93: a missing file read as an
\* empty one.
LoadAddresses_NoExistsCheck ==
    /\ pc = "load"
    /\ calls' = Append(calls, "load_addresses")
    /\ LET loaded == LoadRows(address_map, IF IsNone(addrFile) THEN << >> ELSE Val(addrFile))
       IN  /\ address_map' = loaded.map
           /\ IF loaded.exc # ""
              THEN Raise(loaded.exc)
              ELSE pc' = Dispatch /\ UNCHANGED exc
    /\ UNCHANGED << inputs, mem, handle, pid, module_base, mainVars, outVars, osLog >>

\* Lines 253-254 and load_addresses (91-119).
LoadAddresses ==
    /\ pc = "load"
    /\ calls' = Append(calls, "load_addresses")
    /\ IF IsNone(addrFile)
       THEN /\ pc' = "done"
            /\ UNCHANGED << address_map, exc >>
       ELSE LET loaded == LoadRows(address_map, Val(addrFile))
            IN  /\ address_map' = loaded.map
                /\ IF loaded.exc # ""
                   THEN Raise(loaded.exc)
                   ELSE pc' = Dispatch /\ UNCHANGED exc
    /\ UNCHANGED << inputs, mem, handle, pid, module_base, mainVars, outVars, osLog >>

\* open_process (75-77): whether a pid is at hand once find_process was tried.
OpenFinds == Truthy(pid) \/ ~IsNone(winedbg)

\* open_process(write_access) (74-84) with OpenProcess's outcome ok.
open_process(write_access, ok) ==
    /\ calls' = Append(calls, "open_process")
    /\ IF ~OpenFinds
       THEN UNCHANGED << handle, pid, osLog >>
       ELSE /\ pid' = IF Truthy(pid) THEN pid ELSE Some(IntBase16(Val(winedbg)).val)
            /\ handle' = IF ok THEN Some([pid |-> Val(pid'), access |-> OpenAccess(write_access)])
                         ELSE None
            /\ osLog' = Append(osLog, OsCall("OpenProcess", handle', 0, ok, 0, None))

\* What open_process returns (77, 84).
OpenReturns(ok) == OpenFinds /\ ok

\* Lines 256-259.
ReadOpen ==
    /\ pc = "read"
    /\ \E ok \in BOOLEAN :
         /\ open_process(FALSE, ok)
         /\ pc' = IF OpenReturns(ok) THEN "read_all" ELSE "done"
    /\ values' = << >>
    /\ idx' = 1
    /\ UNCHANGED << inputs, mem, exc, module_base, address_map, module_filter,
                    output_path, count, report, outVars >>

\* The value snapshot read_all_values appends (166-173).
Snapshot(info, runtime, value) ==
    [rva |-> info.rva, runtime |-> runtime, label |-> info.label, value |-> value,
     original |-> info.original, type |-> info.type]

\* values with the snapshot appended to the module's list (163-165).
AddSnapshot(vs, module, snap) ==
    DictSet(vs, module, Append(IF DictHas(vs, module) THEN DictGet(vs, module) ELSE << >>, snap))

\* The filter of read_all_values comparing the names as they are written.
Filtered_CaseSensitive(filter, module) ==
    /\ ~IsNone(filter)
    /\ Val(filter) # << >>
    /\ Val(module) # Val(filter)

\* Whether read_all_values skips an entry of this module (155-157).
Filtered(filter, module) ==
    /\ ~IsNone(filter)
    /\ Val(filter) # << >>
    /\ Lower(Val(module)) # Lower(Val(filter))

\* read_all_values (152-175): one pass of its loop, over entry idx.
ReadEntry ==
    /\ pc = "read_all"
    /\ idx <= Len(address_map)
    /\ LET info    == address_map[idx][2]
           module  == info.module
           runtime == get_runtime_address(module_base, info.rva)
       IN  IF ~IsNone(module_filter) /\ Val(module_filter) # << >> /\ IsNone(module)
           THEN /\ Raise("AttributeError")
                /\ UNCHANGED << module_base, values, idx, osLog >>
           ELSE IF Filtered(module_filter, module)
           THEN /\ idx' = idx + 1
                /\ UNCHANGED << pc, exc, module_base, values, osLog >>
           ELSE /\ module_base' = BaseAfter(module_base)
                /\ idx' = idx + 1
                /\ UNCHANGED << pc, exc >>
                /\ IF Truthy(runtime)
                   THEN \E ok \in { b \in BOOLEAN : b => CanRead(handle) } :
                          LET value == read_float(mem, Val(runtime), ok)
                          IN  /\ osLog' = Append(osLog, OsCall("ReadProcessMemory", handle,
                                                               VoidP(runtime), ok, idx, value))
                              /\ values' = IF IsNone(value) THEN values
                                           ELSE AddSnapshot(values, module,
                                                            Snapshot(info, Val(runtime), Val(value)))
                   ELSE UNCHANGED << values, osLog >>
    /\ UNCHANGED << inputs, mem, handle, pid, address_map, module_filter, output_path,
                    count, report, outVars, calls >>

\* Lines 261-274, once read_all_values has returned: the output folder and
\* one write_csv per module of values.
ReadOutput ==
    /\ pc = "read_all"
    /\ idx > Len(address_map)
    /\ LET output_str == IF output_path = << >> THEN << "." >> ELSE output_path
           written    == WriteAll(output_path, values, files, << >>)
       IN  /\ dirs' = IF output_str # << "." >> /\ output_str # << >>
                      THEN dirs \cup { output_path } ELSE dirs
           /\ files' = written.files
           /\ calls' = Append(calls, "read_all_values") \o written.calls
           /\ IF written.exc # ""
              THEN Raise(written.exc)
              ELSE pc' = "close" /\ UNCHANGED exc
    /\ UNCHANGED << inputs, mem, ioVars, mainVars, osLog >>

\* Lines 276-283.
WriteOpen ==
    /\ pc = "write"
    /\ IF Len(argv) < 3
       THEN /\ pc' = "done"
            /\ UNCHANGED << handle, pid, calls, osLog >>
       ELSE \E ok \in BOOLEAN :
              /\ open_process(TRUE, ok)
              /\ pc' = IF OpenReturns(ok) THEN "write_file" ELSE "done"
    /\ UNCHANGED << inputs, mem, exc, module_base, address_map, mainVars, outVars >>

\* Lines 284-286: open(input_file) and the reader over it.
OpenInput ==
    /\ pc = "write_file"
    /\ IF IsNone(inputFile)
       THEN /\ Raise("FileNotFoundError")
            /\ UNCHANGED << idx, count >>
       ELSE /\ pc' = "write_rows"
            /\ idx' = 1
            /\ count' = 0
            /\ UNCHANGED exc
    /\ UNCHANGED << inputs, mem, ioVars, module_filter, output_path, values, report,
                    outVars, calls, osLog >>

\* float(x) at line 291, for x a field of the row (a str or None).  The int
\* 0 that row.get falls back on is passed as the str "0": float(0) is
\* float("0").
Float(x) ==
    IF IsNone(x) THEN [exc |-> "TypeError", val |-> NaN] ELSE FloatOfStr(Val(x))

\* Lines 287-295: one pass of the write command's loop, over row idx.
WriteRow ==
    /\ pc = "write_rows"
    /\ idx <= Len(Val(inputFile))
    /\ LET row       == Val(inputFile)[idx]
           rva_str   == Get(row, "RVA", Some(<< >>))
           rva       == IntBase16(Val(rva_str))
           new_value == Float(Get(row, "NewValue", Get(row, "CurrentValue", Some(<< "0" >>))))
           runtime   == get_runtime_address(module_base, rva.val)
       IN  IF IsNone(rva_str)
           THEN /\ Raise("AttributeError")
                /\ UNCHANGED << mem, module_base, idx, count, osLog >>
           ELSE IF ~StartsWith(Val(rva_str), << "0", "x" >>)
           THEN /\ idx' = idx + 1
                /\ UNCHANGED << mem, pc, exc, module_base, count, osLog >>
           ELSE IF ~rva.ok
           THEN /\ Raise("ValueError")
                /\ UNCHANGED << mem, module_base, idx, count, osLog >>
           ELSE IF new_value.exc # ""
           THEN /\ Raise(new_value.exc)
                /\ UNCHANGED << mem, module_base, idx, count, osLog >>
           ELSE /\ module_base' = BaseAfter(module_base)
                /\ idx' = idx + 1
                /\ UNCHANGED << pc, exc >>
                /\ IF Truthy(runtime)
                   THEN \E ok \in { b \in BOOLEAN : b => CanWrite(handle) } :
                          /\ mem' = write_float(mem, Val(runtime), new_value.val, ok)
                          /\ osLog' = Append(osLog, OsCall("WriteProcessMemory", handle,
                                                           VoidP(runtime), ok, idx,
                                                           Some(new_value.val)))
                          /\ count' = IF ok THEN count + 1 ELSE count
                   ELSE UNCHANGED << mem, count, osLog >>
    /\ UNCHANGED << inputs, handle, pid, address_map, module_filter, output_path,
                    values, report, outVars, calls >>

\* Line 296, once the loop is over.
WriteReport ==
    /\ pc = "write_rows"
    /\ idx > Len(Val(inputFile))
    /\ report' = Some(count)
    /\ pc' = "close"
    /\ UNCHANGED << inputs, mem, exc, ioVars, module_filter, output_path, values, idx,
                    count, outVars, calls, osLog >>

\* Lines 298-306.
SetOpen ==
    /\ pc = "set"
    /\ IF Len(argv) < 4
       THEN /\ pc' = "done"
            /\ UNCHANGED << exc, handle, pid, calls, osLog >>
       ELSE IF ~IntBase16(argv[3]).ok \/ FloatOfStr(argv[4]).exc # ""
       THEN /\ Raise("ValueError")
            /\ UNCHANGED << handle, pid, calls, osLog >>
       ELSE /\ \E ok \in BOOLEAN :
                 /\ open_process(TRUE, ok)
                 /\ pc' = IF OpenReturns(ok) THEN "set_write" ELSE "done"
            /\ UNCHANGED exc
    /\ UNCHANGED << inputs, mem, module_base, address_map, mainVars, outVars >>

\* Lines 307-311.
SetWrite ==
    /\ pc = "set_write"
    /\ LET rva       == IntBase16(argv[3]).val
           new_value == FloatOfStr(argv[4]).val
           runtime   == get_runtime_address(module_base, rva)
       IN  /\ module_base' = BaseAfter(module_base)
           /\ \E ok \in { b \in BOOLEAN : b => CanWrite(handle) } :
                /\ mem' = write_float(mem, VoidP(runtime), new_value, ok)
                /\ osLog' = Append(osLog, OsCall("WriteProcessMemory", handle, VoidP(runtime),
                                                 ok, 0, Some(new_value)))
    /\ pc' = "close"
    /\ UNCHANGED << inputs, exc, handle, pid, address_map, mainVars, outVars, calls >>

\* Line 313 and close_process (86-89).
CloseProcess ==
    /\ pc = "close"
    /\ calls' = Append(calls, "close_process")
    /\ IF ~IsNone(handle)
       THEN /\ osLog' = Append(osLog, OsCall("CloseHandle", handle, 0, TRUE, 0, None))
            /\ handle' = None
       ELSE UNCHANGED << handle, osLog >>
    /\ pc' = "done"
    /\ UNCHANGED << inputs, mem, exc, pid, module_base, address_map, mainVars, outVars >>

Next ==
    \/ ParseArgs
    \/ FindProcess
    \/ LoadAddresses
    \/ ReadOpen
    \/ ReadEntry
    \/ ReadOutput
    \/ WriteOpen
    \/ OpenInput
    \/ WriteRow
    \/ WriteReport
    \/ SetOpen
    \/ SetWrite
    \/ CloseProcess

Spec == Init /\ [][Next]_vars

----------------------------------------------------------------------------
\* The LiveMemoryIO object on its own: a caller that holds the object with
\* the process found and calls open_process, close_process, write_float and
\* read_float in any order.

\* Kernel32 calls one such caller makes at most.
MaxCalls == 4

\* The addresses it uses (two floats that share bytes) and the values it writes.
IoAddresses == { Val(get_runtime_address(None, rva)) : rva \in { 16, 18 } }
IoValues == { FloatOfStr(<< "1" >>).val, FloatOfStr(<< "1", "6", "7", "7", "7", "2", "1", "7" >>).val }

InitIO ==
    /\ argv = << "live_memory_io.py" >>
    /\ winedbg \in { w \in WinedbgOutputs : ~IsNone(w) }
    /\ addrFile = None
    /\ inputFile = None
    /\ mem = << >>
    /\ pc = "io"
    /\ exc = ""
    /\ handle = None
    /\ pid = Some(IntBase16(Val(winedbg)).val)
    /\ module_base = None
    /\ address_map = << >>
    /\ module_filter = None
    /\ output_path = << "." >>
    /\ values = << >>
    /\ idx = 0
    /\ count = 0
    /\ report = None
    /\ dirs = { }
    /\ files = << >>
    /\ calls = << >>
    /\ osLog = << >>

IoOpen ==
    /\ pc = "io"
    /\ Len(osLog) < MaxCalls
    /\ \E write_access \in BOOLEAN, ok \in BOOLEAN : open_process(write_access, ok)
    /\ UNCHANGED << inputs, mem, pc, exc, module_base, address_map, mainVars, outVars >>

\* close_process (86-89)
IoClose ==
    /\ pc = "io"
    /\ Len(osLog) < MaxCalls
    /\ ~IsNone(handle)
    /\ calls' = Append(calls, "close_process")
    /\ osLog' = Append(osLog, OsCall("CloseHandle", handle, 0, TRUE, 0, None))
    /\ handle' = None
    /\ UNCHANGED << inputs, mem, pc, exc, pid, module_base, address_map, mainVars, outVars >>

\* write_float (140-150)
IoWrite ==
    /\ pc = "io"
    /\ Len(osLog) < MaxCalls
    /\ \E address \in IoAddresses, value \in IoValues, ok \in { b \in BOOLEAN : b => CanWrite(handle) } :
         /\ mem' = write_float(mem, address, value, ok)
         /\ osLog' = Append(osLog, OsCall("WriteProcessMemory", handle, address, ok, 0, Some(value)))
    /\ UNCHANGED << inputs, pc, exc, ioVars, mainVars, outVars, calls >>

\* read_float (128-138)
IoRead ==
    /\ pc = "io"
    /\ Len(osLog) < MaxCalls
    /\ \E address \in IoAddresses, ok \in { b \in BOOLEAN : b => CanRead(handle) } :
         osLog' = Append(osLog, OsCall("ReadProcessMemory", handle, address, ok, 0,
                                       read_float(mem, address, ok)))
    /\ UNCHANGED << inputs, mem, pc, exc, ioVars, mainVars, outVars, calls >>

NextIO ==
    \/ IoOpen
    \/ IoClose
    \/ IoWrite
    \/ IoRead

SpecIO == InitIO /\ [][NextIO]_vars

----------------------------------------------------------------------------
\* What the properties below speak of.

\* The run is over: main returned, or an exception ended it.
Ended == pc \in { "done", "crashed" }

\* Positions in osLog of the calls of one kernel32 function.
OsCalls(op) == { i \in DOMAIN osLog : osLog[i].op = op }

\* Those made for the table row at position k.
CallsFor(op, k) == { i \in OsCalls(op) : osLog[i].src = k }

\* open_process returned True.
Opened == \E i \in OsCalls("OpenProcess") : osLog[i].ok

\* The function or method f was entered.
Called(f) == \E i \in DOMAIN calls : calls[i] = f

\* The entry passes the module filter of the run.
PassesFilter(info) ==
    \/ IsNone(module_filter)
    \/ /\ ~IsNone(info.module)
       /\ Lower(Val(info.module)) = Lower(Val(module_filter))

\* read_all_values has gone through the whole address map.
ReadAllReturned ==
    /\ command = << "r", "e", "a", "d" >>
    /\ \/ pc = "read_all" /\ idx > Len(address_map)
       \/ Called("read_all_values")

\* A row has an RVA field that is 0x-prefixed hexadecimal.
WellFormed(row) ==
    /\ "RVA" \in DOMAIN row
    /\ ~IsNone(row.RVA)
    /\ StartsWith(Val(row.RVA), << "0", "x" >>)
    /\ IntBase16(Val(row.RVA)).ok

\* The RVA of a well-formed row.
RvaOf(row) == IntBase16(Val(row.RVA)).val

\* A row of the write command's input has a value that is a number.
HasNumber(row) ==
    Float(Get(row, "NewValue", Get(row, "CurrentValue", Some(<< "0" >>)))).exc = ""

----------------------------------------------------------------------------
\* C1: every address handed to ReadProcessMemory or WriteProcessMemory, in
\* the read, write and set commands alike, is 0x400000 + rva - 1 for the rva
\* of the row (or argument) the call is made for; get_runtime_address yields
\* an address, never None, for every entry the read command gets to, and
\* io.module_base is never anything but 0x400000 once set.
C1_RuntimeAddress ==
    /\ \A i \in OsCalls("ReadProcessMemory") :
         osLog[i].addr = 4194304 + address_map[osLog[i].src][2].rva - 1
    /\ \A i \in OsCalls("WriteProcessMemory") :
         osLog[i].addr = 4194304 - 1 + (IF osLog[i].src = 0 THEN IntBase16(argv[3]).val
                                        ELSE RvaOf(Val(inputFile)[osLog[i].src]))
    /\ pc = "read_all" =>
         \A k \in DOMAIN address_map :
           (k < idx /\ PassesFilter(address_map[k][2])) => CallsFor("ReadProcessMemory", k) # { }
    /\ module_base \in { None, Some(4194304) }

\* C1's case: the entry at RVA 0x10 was read, at 0x40000F.
C1_Witness ==
    \E i \in OsCalls("ReadProcessMemory") :
      /\ osLog[i].ok
      /\ address_map[osLog[i].src][2].rva = 16
      /\ osLog[i].addr = 4194319

----------------------------------------------------------------------------
\* C2 as claimed: a read_float that succeeds after a write_float(address, v)
\* that succeeded, with no successful write in between, returns v.
C2_RoundTripExact ==
    \A i \in OsCalls("WriteProcessMemory"), j \in OsCalls("ReadProcessMemory") :
      ( /\ i < j
        /\ osLog[i].ok
        /\ osLog[j].ok
        /\ osLog[i].addr = osLog[j].addr
        /\ \A k \in OsCalls("WriteProcessMemory") : (i < k /\ k < j) => ~osLog[k].ok )
      => Val(osLog[j].value) = Val(osLog[i].value)

\* C2 as amended: such a read returns v rounded to the nearest 4-byte float,
\* the value of the 4 bytes that were written.
C2_RoundTripSingle ==
    \A i \in OsCalls("WriteProcessMemory"), j \in OsCalls("ReadProcessMemory") :
      ( /\ i < j
        /\ osLog[i].ok
        /\ osLog[j].ok
        /\ osLog[i].addr = osLog[j].addr
        /\ \A k \in OsCalls("WriteProcessMemory") : (i < k /\ k < j) => ~osLog[k].ok )
      => /\ Val(osLog[j].value) = FloatValue(CFloat(Val(osLog[i].value)))
         /\ (BitLen(Val(osLog[i].value).man) <= 24 => Val(osLog[j].value) = Val(osLog[i].value))

\* C2's case: 16777217 was written and the same address then read.
C2_Witness ==
    \E i \in OsCalls("WriteProcessMemory"), j \in OsCalls("ReadProcessMemory") :
      /\ i < j
      /\ osLog[i].ok
      /\ osLog[j].ok
      /\ osLog[i].addr = osLog[j].addr
      /\ Val(osLog[i].value) = FloatOfInt(16777217)
      /\ Val(osLog[j].value) = FloatOfInt(16777216)

----------------------------------------------------------------------------
\* C3 as claimed: once load_addresses was called on an existing file it has
\* run to completion (no exception left it), and the address map holds
\* exactly the entries of the well-formed rows.
C3_MalformedRowsSkipped ==
    (Called("load_addresses") /\ ~IsNone(addrFile)) =>
      /\ ~(pc = "crashed" /\ calls[Len(calls)] = "load_addresses")
      /\ { address_map[k][2] : k \in DOMAIN address_map }
           = { [rva |-> RvaOf(row),
                type |-> Get(row, "Type", Some("Sing")),
                label |-> Get(row, "Label", Some("???")),
                module |-> Get(row, "Module", Some(<< "U", "n", "k", "n", "o", "w", "n" >>)),
                original |-> Get(row, "EXE_Value", Get(row, "Original", Some("")))] :
               row \in { Val(addrFile)[k] : k \in { n \in DOMAIN Val(addrFile) : WellFormed(Val(addrFile)[n]) } } }

----------------------------------------------------------------------------
\* C4: when addresses.csv does not exist the run never gets past
\* load_addresses: no exception, no process handle, no kernel32 call, no
\* output file and no directory.
C4_MissingTableAborts ==
    IsNone(addrFile) =>
      /\ pc \in { "main", "find", "load", "done" }
      /\ exc = ""
      /\ IsNone(handle)
      /\ osLog = << >>
      /\ DOMAIN files = { }
      /\ dirs = { }
      /\ DOMAIN mem = { }

\* C4's case: a read with an output folder found the process, found no
\* address table, and returned.
C4_Witness ==
    /\ IsNone(addrFile)
    /\ command = << "r", "e", "a", "d" >>
    /\ Len(argv) >= 4
    /\ Called("load_addresses")
    /\ pc = "done"

----------------------------------------------------------------------------
\* C5 as claimed: no run ends with the handle still open; open_process is
\* called at most once, and where it succeeded close_process is executed
\* before the run ends.
C5_HandleReleased ==
    /\ Cardinality(OsCalls("OpenProcess")) <= 1
    /\ Ended => (IsNone(handle) /\ (Opened => Called("close_process")))

----------------------------------------------------------------------------
\* C6 as claimed: when a run that opened the process is over, a read command
\* has made exactly one ReadProcessMemory call for each entry that passes
\* the filter, a write command exactly one WriteProcessMemory call for each
\* input row with a 0x-prefixed RVA, a set command exactly one write; and
\* never more than one at any time.
C6_ExactlyOneCall ==
    /\ \A k \in DOMAIN address_map : Cardinality(CallsFor("ReadProcessMemory", k)) <= 1
    /\ \A k \in 0..MaxInputRows + 1 : Cardinality(CallsFor("WriteProcessMemory", k)) <= 1
    /\ (Ended /\ Opened /\ command = << "r", "e", "a", "d" >>) =>
         \A k \in DOMAIN address_map :
           PassesFilter(address_map[k][2]) => Cardinality(CallsFor("ReadProcessMemory", k)) = 1
    /\ (Ended /\ Opened /\ command = << "w", "r", "i", "t", "e" >> /\ ~IsNone(inputFile)) =>
         \A k \in DOMAIN Val(inputFile) :
           LET row == Val(inputFile)[k]
           IN  ("RVA" \in DOMAIN row /\ ~IsNone(row.RVA) /\ StartsWith(Val(row.RVA), << "0", "x" >>))
               => Cardinality(CallsFor("WriteProcessMemory", k)) = 1
    /\ (Ended /\ Opened /\ command = << "s", "e", "t" >>) =>
         Cardinality(OsCalls("WriteProcessMemory")) = 1

----------------------------------------------------------------------------
\* The snapshots in values taken for the entry info: << position of the
\* module in values, position in the module's list >>.
SnapshotsOf(info) ==
    { p \in { << m, j >> : m \in DOMAIN values, j \in DOMAIN address_map } :
        /\ values[p[1]][1] = info.module
        /\ p[2] \in DOMAIN values[p[1]][2]
        /\ values[p[1]][2][p[2]].rva = info.rva
        /\ values[p[1]][2][p[2]].label = info.label }

\* C7: read_all_values reads an entry exactly when the entry passes the
\* filter (compared in lower case; or there is no filter), and what it
\* returns holds a snapshot for an entry exactly when the entry passes the
\* filter and its own read succeeded, whatever became of the other reads;
\* the snapshot carries the entry's rva, label, type and reference value, the
\* address read and the value read there; and there is no other snapshot.
C7_IndependentEntries ==
    ReadAllReturned =>
      /\ \A k \in DOMAIN address_map :
           LET info == address_map[k][2]
               reads == { i \in CallsFor("ReadProcessMemory", k) : osLog[i].ok }
           IN  /\ Cardinality(CallsFor("ReadProcessMemory", k))
                    = IF PassesFilter(info) THEN 1 ELSE 0
               /\ Cardinality(SnapshotsOf(info))
                    = IF PassesFilter(info) /\ reads # { } THEN 1 ELSE 0
               /\ \A p \in SnapshotsOf(info), i \in reads :
                    LET snap == values[p[1]][2][p[2]]
                    IN  /\ snap.type = info.type
                        /\ snap.original = info.original
                        /\ snap.runtime = osLog[i].addr
                        /\ snap.value = FloatValue(BytesAt(mem, 4194304 + info.rva - 1))
      /\ \A m \in DOMAIN values :
           /\ Len(values[m][2]) > 0
           /\ \A j \in DOMAIN values[m][2] :
                \E k \in DOMAIN address_map :
                  /\ address_map[k][2].module = values[m][1]
                  /\ << m, j >> \in SnapshotsOf(address_map[k][2])

\* C7's case: with the filter Chassis, the read of a Chassis entry failed and
\* the read of the CHASSIS entry after it succeeded.
C7_Witness ==
    /\ ReadAllReturned
    /\ module_filter = Some(<< "C", "h", "a", "s", "s", "i", "s" >>)
    /\ \E i, j \in OsCalls("ReadProcessMemory") :
         /\ i < j
         /\ ~osLog[i].ok
         /\ osLog[j].ok
         /\ address_map[osLog[j].src][2].module = Some(<< "C", "H", "A", "S", "S", "I", "S" >>)
    /\ Len(values) = 1
    /\ Len(values[1][2]) = 1

----------------------------------------------------------------------------
\* C8 as claimed: when a write command that opened its input file is over,
\* no exception ended it, every row with a hexadecimal RVA and a numeric
\* value has been written to (tried), and the count reported is the number
\* of writes that succeeded.
C8_BadRowsSkipped ==
    (Ended /\ Opened /\ command = << "w", "r", "i", "t", "e" >> /\ ~IsNone(inputFile)) =>
      /\ exc = ""
      /\ \A k \in DOMAIN Val(inputFile) :
           (WellFormed(Val(inputFile)[k]) /\ HasNumber(Val(inputFile)[k]))
           => CallsFor("WriteProcessMemory", k) # { }
      /\ report = Some(Cardinality({ i \in OsCalls("WriteProcessMemory") : osLog[i].ok }))

----------------------------------------------------------------------------
\* C9 as claimed, for the runs no exception ended: once the read command has
\* written its output, write_csv was called once for each module of values
\* (the modules with a snapshot), and the file of each module holds exactly
\* that module's snapshots, in order.
C9_OneFilePerModule ==
    (ReadAllReturned /\ pc \in { "close", "done" } /\ exc = "") =>
      /\ Cardinality({ i \in DOMAIN calls : calls[i] = "write_csv" }) = Len(values)
      /\ \A m \in DOMAIN values :
           /\ CsvPath(output_path, Val(values[m][1])) \in DOMAIN files
           /\ files[CsvPath(output_path, Val(values[m][1]))] = CsvRows(values[m][2])

----------------------------------------------------------------------------
\* C10: WriteProcessMemory is called only in the write and set commands, on a
\* handle that open_process(write_access=True) returned; a read command asks
\* for PROCESS_VM_READ | PROCESS_VM_OPERATION only, holds no handle with
\* PROCESS_VM_WRITE, and leaves every byte of target memory as it was.
C10_WriteNeedsWriteHandle ==
    /\ \A i \in OsCalls("WriteProcessMemory") :
         /\ command \in { << "w", "r", "i", "t", "e" >>, << "s", "e", "t" >> }
         /\ ~IsNone(osLog[i].handle)
         /\ Val(osLog[i].handle).access = 2035711
         /\ \E j \in OsCalls("OpenProcess") : j < i /\ osLog[j].ok /\ osLog[j].handle = osLog[i].handle
    /\ command = << "r", "e", "a", "d" >> =>
         /\ DOMAIN mem = { }
         /\ IsNone(handle) \/ Val(handle).access = 24
         /\ \A j \in OsCalls("OpenProcess") :
              osLog[j].ok => ~HasRight(Val(osLog[j].handle).access, 32)

\* C10's case: a read command opened the process and read a value.
C10_Witness ==
    /\ command = << "r", "e", "a", "d" >>
    /\ \E i \in OsCalls("ReadProcessMemory") : osLog[i].ok
    /\ pc = "done"

====
